---- MODULE Spec2Model ----
(***************************************************************************)
(* The kernel module event handler of chapters/2/hello_world and the       *)
(* probe/attach/detach entry points of chapters/4/mydriver, called by      *)
(* concurrent kernel threads (at most NumThreads calls are in progress at  *)
(* a time).  The entry points keep no variables of their own: what they    *)
(* change is the console (printf / device_printf) and what they report is  *)
(* their return value.  The model records, per device, the completed calls *)
(* with their return values and the bus resources the driver holds for the *)
(* device; the value the module event handler returns is its local         *)
(* "error", kept with the call in progress.                                *)
(***************************************************************************)
EXTENDS Integers, Sequences, FiniteSets, Bags, TLC

\* ---- bounds of the model ------------------------------------------------
NumDevices == 2
NumThreads == 2
MaxLog == 3
MaxCmd == 2

Devices == 1..NumDevices

\* ---- kernel constants the source uses ------------------------------------
MOD_LOAD == 0
MOD_UNLOAD == 1
EOPNOTSUPP == 45
ENXIO == 6
BUS_PROBE_DEFAULT == 0 - 20

\* every value of the handler's "int cmd" the model dispatches
Cmds == 0..MaxCmd

\* ---- console lines -------------------------------------------------------
\* dev = 0 is a plain printf, dev = d a device_printf(d, ...)
MsgLoaded == [dev |-> 0, text |-> "Hello World! Kernel module loaded."]
MsgUnloaded == [dev |-> 0, text |-> "Goodbye World! Kernel module unloaded."]
MsgProbe(dev) == [dev |-> dev, text |-> "Probing device..."]
MsgAttach(dev) == [dev |-> dev, text |-> "Attaching device and initializing resources..."]
MsgDetach(dev) == [dev |-> dev, text |-> "Detaching device and cleaning up..."]

VARIABLES
    running,  \* the bag of calls in progress, one per calling thread
    console,  \* the lines printed so far
    hist,     \* hist[d]: completed driver calls on device d, with return values
    ledger    \* ledger[d]: bus resources the driver holds for device d

vars == <<running, console, hist, ledger>>

\* a call in progress: the entry point, its argument (cmd or device) and the
\* value of the local "error" of hello_world_load (0 in the driver calls)
Call(fn, arg, error) == [fn |-> fn, arg |-> arg, error |-> error]

\* ---- hello_world.c --------------------------------------------------------
\* faulty variants of the switch (each a slip the handler could contain)
\* default branch forgets to set error
hello_world_load_DefaultOk(cmd) ==
    IF cmd = MOD_LOAD THEN [error |-> 0, out |-> <<MsgLoaded>>]
    ELSE IF cmd = MOD_UNLOAD THEN [error |-> 0, out |-> <<MsgUnloaded>>]
    ELSE [error |-> 0, out |-> <<>>]

\* MOD_LOAD prints its message and then reports an error
hello_world_load_LoadFails(cmd) ==
    IF cmd = MOD_LOAD THEN [error |-> ENXIO, out |-> <<MsgLoaded>>]
    ELSE IF cmd = MOD_UNLOAD THEN [error |-> 0, out |-> <<MsgUnloaded>>]
    ELSE [error |-> EOPNOTSUPP, out |-> <<>>]

\* MOD_UNLOAD prints the message of MOD_LOAD
hello_world_load_UnloadSaysLoaded(cmd) ==
    IF cmd = MOD_LOAD THEN [error |-> 0, out |-> <<MsgLoaded>>]
    ELSE IF cmd = MOD_UNLOAD THEN [error |-> 0, out |-> <<MsgLoaded>>]
    ELSE [error |-> EOPNOTSUPP, out |-> <<>>]

\* MOD_UNLOAD prints its message and then reports an error
hello_world_load_UnloadFails(cmd) ==
    IF cmd = MOD_LOAD THEN [error |-> 0, out |-> <<MsgLoaded>>]
    ELSE IF cmd = MOD_UNLOAD THEN [error |-> ENXIO, out |-> <<MsgUnloaded>>]
    ELSE [error |-> EOPNOTSUPP, out |-> <<>>]

\* the case MOD_LOAD is missing
hello_world_load_NoLoadCase(cmd) ==
    IF cmd = MOD_UNLOAD THEN [error |-> 0, out |-> <<MsgUnloaded>>]
    ELSE [error |-> EOPNOTSUPP, out |-> <<>>]

\* the case MOD_UNLOAD is missing
hello_world_load_NoUnloadCase(cmd) ==
    IF cmd = MOD_LOAD THEN [error |-> 0, out |-> <<MsgLoaded>>]
    ELSE [error |-> EOPNOTSUPP, out |-> <<>>]

\* the switch of hello_world_load: the value of "error" and the lines printed
hello_world_load(cmd) ==
    IF cmd = MOD_LOAD THEN [error |-> 0, out |-> <<MsgLoaded>>]
    ELSE IF cmd = MOD_UNLOAD THEN [error |-> 0, out |-> <<MsgUnloaded>>]
    ELSE [error |-> EOPNOTSUPP, out |-> <<>>]

\* ---- mydriver.c -----------------------------------------------------------
\* faulty variant: the probe matches and allocates a resource
mydriver_probe_Allocates(dev, res) ==
    [out |-> <<MsgProbe(dev)>>, ret |-> BUS_PROBE_DEFAULT,
     res |-> Append(res, [dev |-> dev, kind |-> "memory"])]

\* faulty variant: the probe matches the first device only
mydriver_probe_OnlyFirst(dev, res) ==
    [out |-> <<MsgProbe(dev)>>,
     ret |-> IF dev = 1 THEN BUS_PROBE_DEFAULT ELSE ENXIO, res |-> res]

\* faulty variant: the probe allocates a resource, then rejects the device
\* without releasing it
mydriver_probe_RejectsAfterAlloc(dev, res) ==
    [out |-> <<MsgProbe(dev)>>, ret |-> ENXIO,
     res |-> Append(res, [dev |-> dev, kind |-> "memory"])]

\* faulty variant: the probe rejects the device
mydriver_probe_Rejects(dev, res) ==
    [out |-> <<MsgProbe(dev)>>, ret |-> ENXIO, res |-> res]

\* each entry point: the line it prints, the value it returns and the
\* resources held for the device afterwards (res: those held before)
mydriver_probe(dev, res) ==
    [out |-> <<MsgProbe(dev)>>, ret |-> BUS_PROBE_DEFAULT, res |-> res]

\* faulty variant: attach fails
mydriver_attach_Fails(dev, res) ==
    [out |-> <<MsgAttach(dev)>>, ret |-> ENXIO, res |-> res]

\* faulty variant: attach books the resource it allocates on one fixed device
\* (a file-scoped softc shared by all devices)
mydriver_attach_SharedSoftc(dev, res) ==
    [out |-> <<MsgAttach(dev)>>, ret |-> 0,
     res |-> Append(res, [dev |-> 1, kind |-> "memory"])]

\* faulty variant: attach allocates a resource that detach never releases
mydriver_attach_Allocates(dev, res) ==
    [out |-> <<MsgAttach(dev)>>, ret |-> 0, res |-> Append(res, "memory")]

mydriver_attach(dev, res) ==
    [out |-> <<MsgAttach(dev)>>, ret |-> 0, res |-> res]

\* faulty variant: detach is refused when the device holds no resource
mydriver_detach_NeedsResources(dev, res) ==
    [out |-> <<MsgDetach(dev)>>, ret |-> IF res = <<>> THEN ENXIO ELSE 0,
     res |-> res]

\* faulty variant: detach is refused
mydriver_detach_Refuses(dev, res) ==
    [out |-> <<MsgDetach(dev)>>, ret |-> ENXIO, res |-> res]

mydriver_detach(dev, res) ==
    [out |-> <<MsgDetach(dev)>>, ret |-> 0, res |-> res]

DriverFns == {"mydriver_probe", "mydriver_attach", "mydriver_detach"}

Entry(fn, dev, res) ==
    IF fn = "mydriver_probe" THEN mydriver_probe(dev, res)
    ELSE IF fn = "mydriver_attach" THEN mydriver_attach(dev, res)
    ELSE mydriver_detach(dev, res)

Init ==
    /\ running = EmptyBag
    /\ console = <<>>
    /\ hist = [d \in Devices |-> <<>>]
    /\ ledger = [d \in Devices |-> <<>>]

\* a thread enters the module event handler: error = 0, the switch
ModEvent(cmd) ==
    /\ BagCardinality(running) < NumThreads
    /\ Len(console) + Len(hello_world_load(cmd).out) <= MaxLog
    /\ running' = running (+) SetToBag({Call("hello_world_load", cmd,
                                             hello_world_load(cmd).error)})
    /\ console' = console \o hello_world_load(cmd).out
    /\ UNCHANGED <<hist, ledger>>

\* return (error): the caller receives c.error
ModReturn(c) ==
    /\ BagIn(c, running)
    /\ c.fn = "hello_world_load"
    /\ running' = running (-) SetToBag({c})
    /\ UNCHANGED <<console, hist, ledger>>

\* a thread enters a driver entry point on a device: the device_printf
DriverCall(fn, d) ==
    /\ BagCardinality(running) < NumThreads
    /\ Len(console) + Len(Entry(fn, d, ledger[d]).out) <= MaxLog
    /\ running' = running (+) SetToBag({Call(fn, d, 0)})
    /\ console' = console \o Entry(fn, d, ledger[d]).out
    /\ UNCHANGED <<hist, ledger>>

\* the body after the device_printf and the return
DriverReturn(c) ==
    /\ BagIn(c, running)
    /\ c.fn \in DriverFns
    /\ LET d == c.arg
           r == Entry(c.fn, d, ledger[d])
       IN /\ hist' = [hist EXCEPT ![d] = Append(@, [fn |-> c.fn, ret |-> r.ret])]
          /\ ledger' = [ledger EXCEPT ![d] = r.res]
    /\ running' = running (-) SetToBag({c})
    /\ UNCHANGED console

Next ==
    \/ \E cmd \in Cmds : ModEvent(cmd)
    \/ \E c \in BagToSet(running) : ModReturn(c)
    \/ \E fn \in DriverFns, d \in Devices : DriverCall(fn, d)
    \/ \E c \in BagToSet(running) : DriverReturn(c)

Spec == Init /\ [][Next]_vars

TypeOK ==
    /\ BagCardinality(running) <= NumThreads
    /\ \A c \in BagToSet(running) : c.fn \in DriverFns \cup {"hello_world_load"}
    /\ Len(console) <= MaxLog

\* ---- what the console and the return values tell the caller ---------------
\* the module reports itself loaded or unloaded by the line it printed last
ModStatusOf(c) ==
    LET l == SelectSeq(c, LAMBDA m : m.dev = 0)
    IN IF l # <<>> /\ l[Len(l)] = MsgLoaded THEN "Loaded" ELSE "Unloaded"

ModStatus == ModStatusOf(console)

\* the lifecycle position a completed call leaves the device in: a probe
\* that returns a score (<= 0) matched, attach and detach succeed with 0,
\* a call that returns an errno did not take effect
LifeStep(s, e) ==
    IF e.fn = "mydriver_probe" THEN (IF e.ret <= 0 THEN "Probed" ELSE s)
    ELSE IF e.fn = "mydriver_attach" THEN (IF e.ret = 0 THEN "Attached" ELSE s)
    ELSE (IF e.ret = 0 THEN "Detached" ELSE s)

RECURSIVE Lifecycle(_)
Lifecycle(h) ==
    IF h = <<>> THEN "Unprobed"
    ELSE LifeStep(Lifecycle(SubSeq(h, 1, Len(h) - 1)), h[Len(h)])

DevState(d) == Lifecycle(hist[d])

\* ---- vocabulary of the properties ------------------------------------------
\* the values a call can hand back, and the calls that can be in progress
RetVals == {0, BUS_PROBE_DEFAULT, ENXIO, EOPNOTSUPP}
ModCalls(cmd) == {Call("hello_world_load", cmd, e) : e \in RetVals}
Drv(fn, d) == Call(fn, d, 0)

InFlight(c) == BagIn(c, running)
Enters(c) == running' = running (+) SetToBag({c})
Returns(c) == BagIn(c, running) /\ running' = running (-) SetToBag({c})
\* the value the call that just completed on device d returned
Result(d) == hist[d][Len(hist[d])].ret
Quiet == running = EmptyBag
AttachStarted(d) ==
    \/ InFlight(Drv("mydriver_attach", d))
    \/ \E i \in 1..Len(hist[d]) : hist[d][i].fn = "mydriver_attach"
DetachSucceededLast(d) ==
    /\ hist[d] # <<>>
    /\ hist[d][Len(hist[d])] = [fn |-> "mydriver_detach", ret |-> 0]

\* ---- C2 ---------------------------------------------------------------------
\* C2: the ledger of a device is empty in every state before an Attach on it
\* starts, and it is empty again whenever the last completed call on the
\* device is a Detach that succeeded (what Attach acquired has been released).
C2_LedgerPaired ==
    \A d \in Devices :
        /\ ~AttachStarted(d) => ledger[d] = <<>>
        /\ DetachSucceededLast(d) => ledger[d] = <<>>

\* a device went through probe, attach, detach, all successful
C2_Witness ==
    \E d \in Devices :
        /\ hist[d] = << [fn |-> "mydriver_probe", ret |-> BUS_PROBE_DEFAULT],
                        [fn |-> "mydriver_attach", ret |-> 0],
                        [fn |-> "mydriver_detach", ret |-> 0] >>
        /\ DevState(d) = "Detached"
        /\ ledger[d] = <<>>

\* ---- C3 ---------------------------------------------------------------------
SomeAttached == \E d \in Devices : DevState(d) = "Attached"
AllDetached == \A d \in Devices : DevState(d) = "Detached"

\* C3 as stated: an Unload dispatched while a device is Attached fails and
\* leaves the module status unchanged; once every device is Detached the
\* Unload succeeds and the status becomes Unloaded.
C3_Original ==
    [][\A c \in ModCalls(MOD_UNLOAD) :
          /\ (SomeAttached /\ Enters(c)) => c.error # 0 /\ ModStatus' = ModStatus
          /\ (AllDetached /\ Enters(c)) => c.error = 0 /\ ModStatus' = "Unloaded"]_vars

\* C3 (amended): an Unload dispatched while a device is Attached is not
\* refused: the handler has no busy guard, it reports error 0 and the module
\* unloaded, exactly as it does once every device is Detached.
C3_UnloadNeverBusy ==
    [][\A c \in ModCalls(MOD_UNLOAD) :
          ((SomeAttached \/ AllDetached) /\ Enters(c))
              => c.error = 0 /\ ModStatus' = "Unloaded"]_vars

\* the module was loaded, a device attached, and the Unload is in progress
\* with error 0 and the module reported unloaded
C3_Witness ==
    \E d \in Devices :
        /\ console = <<MsgLoaded, MsgAttach(d), MsgUnloaded>>
        /\ DevState(d) = "Attached"
        /\ running = SetToBag({Call("hello_world_load", MOD_UNLOAD, 0)})
        /\ ModStatus = "Unloaded"

\* ---- C5 ---------------------------------------------------------------------
Other(cmd) == cmd \notin {MOD_LOAD, MOD_UNLOAD}

\* C5: an event other than Load or Unload fails with EOPNOTSUPP and changes
\* nothing: entering the handler with it sets error to EOPNOTSUPP and prints
\* no line, so the module status stays what it was; the return hands that
\* error to the caller and changes neither the console nor any device.
C5_UnsupportedEvent ==
    [][\A cmd \in Cmds : \A c \in ModCalls(cmd) :
          /\ (Other(cmd) /\ Enters(c))
                => /\ c.error = EOPNOTSUPP
                   /\ console' = console
                   /\ ModStatus' = ModStatus
          /\ (Other(cmd) /\ Returns(c))
                => /\ c.error = EOPNOTSUPP
                   /\ UNCHANGED <<console, hist, ledger>>]_vars

\* the module was loaded and then sent an unsupported event: the handler is
\* about to return EOPNOTSUPP and the module is still Loaded
C5_Witness ==
    \E cmd \in Cmds :
        /\ Other(cmd)
        /\ running = SetToBag({Call("hello_world_load", cmd, EOPNOTSUPP)})
        /\ console = <<MsgLoaded>>
        /\ ModStatus = "Loaded"

Executing(d) ==
    CopiesIn(Drv("mydriver_probe", d), running)
        + CopiesIn(Drv("mydriver_attach", d), running)
        + CopiesIn(Drv("mydriver_detach", d), running)
SeqResult(fn) == IF fn = "mydriver_probe" THEN BUS_PROBE_DEFAULT ELSE 0

\* C9 as stated: at most one of Probe, Attach, Detach is executing on the
\* same device at any time.
C9_Original == \A d \in Devices : Executing(d) <= 1

\* C9 (amended): transitions on one device are not serialized by the driver
\* (no lock is taken, several callers can be executing entry points on the
\* same device); a call that completes while another one is executing on the
\* same device returns its own result (BUS_PROBE_DEFAULT for Probe, 0 for
\* Attach and Detach) and leaves the ledger as it was.
C9_NoInterference ==
    [][\A d \in Devices, fn \in DriverFns :
          (Executing(d) > 1 /\ Returns(Drv(fn, d)))
              => /\ hist'[d] = Append(hist[d], [fn |-> fn, ret |-> SeqResult(fn)])
                 /\ ledger' = ledger]_vars

\* an Attach and a Detach are executing on the same device at the same time
C9_Witness ==
    \E d \in Devices :
        /\ InFlight(Drv("mydriver_attach", d))
        /\ InFlight(Drv("mydriver_detach", d))
        /\ console = <<MsgAttach(d), MsgDetach(d)>>

\* ---- C10 --------------------------------------------------------------------
AttachInFlight == \E d \in Devices : InFlight(Drv("mydriver_attach", d))
\* an Unload completes with success while a device is Attached
UnloadDoneAndAttached ==
    /\ Returns(Call("hello_world_load", MOD_UNLOAD, 0))
    /\ \E d \in Devices : DevState(d)' = "Attached"

\* C10 as stated: the module status never changes while an Attach is in
\* flight, and no reachable state has the Unload completed successfully and a
\* device Attached.
C10_Original ==
    [][/\ AttachInFlight => ModStatus' = ModStatus
       /\ ~UnloadDoneAndAttached]_vars

\* C10 (amended): Unload is not atomic with respect to Attach: the handler
\* takes no lock and makes no busy check, so a Load or Unload dispatched while
\* an Attach is in flight goes through (error 0, status Loaded resp.
\* Unloaded); the Attach in flight, whatever the module status is when it
\* completes, returns 0 and leaves the device Attached.
C10_UnloadRacesAttach ==
    [][/\ \A c \in ModCalls(MOD_UNLOAD) :
            (AttachInFlight /\ Enters(c)) => c.error = 0 /\ ModStatus' = "Unloaded"
       /\ \A c \in ModCalls(MOD_LOAD) :
            (AttachInFlight /\ Enters(c)) => c.error = 0 /\ ModStatus' = "Loaded"
       /\ \A d \in Devices :
            Returns(Drv("mydriver_attach", d))
                => Result(d)' = 0 /\ DevState(d)' = "Attached"]_vars

\* the module was loaded, an Attach started, and the Unload went through
\* (error 0, module reported unloaded) while that Attach was still in flight
C10_Witness ==
    \E d \in Devices :
        /\ console = <<MsgLoaded, MsgAttach(d), MsgUnloaded>>
        /\ running = SetToBag({Drv("mydriver_attach", d)})
                        (+) SetToBag({Call("hello_world_load", MOD_UNLOAD, 0)})
        /\ hist[d] = <<>>
        /\ ModStatus = "Unloaded"

\* ---- C11 --------------------------------------------------------------------
\* the calls on device d
CallsOn(d) == {Drv(fn, d) : fn \in DriverFns}
StepOn(d) == \E c \in CallsOn(d) : Enters(c) \/ Returns(c)

\* C11: ledgers are isolated per device: every entry of the ledger of d1 was
\* acquired for d1, and no step of a call on another device d2 adds, removes
\* or changes an entry of the ledger of d1 (nor the calls recorded for d1).
C11_LedgerIsolation ==
    [][\A d1 \in Devices :
          /\ \A i \in 1..Len(ledger'[d1]) : ledger'[d1][i].dev = d1
          /\ \A d2 \in Devices \ {d1} :
                StepOn(d2) => ledger'[d1] = ledger[d1] /\ hist'[d1] = hist[d1]]_vars

\* an Attach has completed on one device while an Attach on another device
\* was in flight, and that one is still in flight
C11_Witness ==
    \E d1 \in Devices, d2 \in Devices :
        /\ d1 # d2
        /\ console = <<MsgAttach(d2), MsgAttach(d1)>>
        /\ hist[d1] = << [fn |-> "mydriver_attach", ret |-> 0] >>
        /\ hist[d2] = <<>>
        /\ running = SetToBag({Drv("mydriver_attach", d2)})
        /\ ledger[d1] = <<>> /\ ledger[d2] = <<>>

\* ---- C12 --------------------------------------------------------------------
\* a failed call on d left the device where it was, or it is the failed
\* Attach that takes a Probed device back to Unprobed
StateKept(fn, d) ==
    \/ DevState(d)' = DevState(d)
    \/ fn = "mydriver_attach" /\ DevState(d) = "Probed" /\ DevState(d)' = "Unprobed"

States == {"Unprobed", "Probed", "Attached", "Detached"}
\* the transitions of the lifecycle table the driver has an entry point for
Table ==
    { <<"Unprobed", "mydriver_probe", "Probed">>,
      <<"Probed", "mydriver_attach", "Attached">>,
      <<"Probed", "mydriver_attach", "Unprobed">>,
      <<"Attached", "mydriver_detach", "Detached">> }
Target(fn) ==
    IF fn = "mydriver_probe" THEN "Probed"
    ELSE IF fn = "mydriver_attach" THEN "Attached" ELSE "Detached"

C16_ProbeReadOnly ==
    [][\A d \in Devices :
          /\ (Enters(Drv("mydriver_probe", d)) \/ Returns(Drv("mydriver_probe", d)))
                => ledger' = ledger
          /\ Len(ledger'[d]) > Len(ledger[d]) => Returns(Drv("mydriver_attach", d))
          /\ Len(ledger'[d]) < Len(ledger[d]) => Returns(Drv("mydriver_detach", d))]_vars

\* a Probe has completed on a device and a second one is in progress; the
\* ledger of the device is empty
C16_Witness ==
    \E d \in Devices :
        /\ hist[d] = << [fn |-> "mydriver_probe", ret |-> BUS_PROBE_DEFAULT] >>
        /\ running = SetToBag({Drv("mydriver_probe", d)})
        /\ ledger[d] = <<>>

\* ---- C18 --------------------------------------------------------------------
Expected(cmd) == IF cmd \in {MOD_LOAD, MOD_UNLOAD} THEN 0 ELSE EOPNOTSUPP

\* C18: the result of hello_world_load depends on cmd alone, after any
\* sequence of events: every call of the handler in progress carries error 0
\* for MOD_LOAD and MOD_UNLOAD and EOPNOTSUPP for any other cmd.
C18_HandlerStateless ==
    \A c \in BagToSet(running) :
        c.fn = "hello_world_load" => c.error = Expected(c.arg)

\* a MOD_UNLOAD came with no MOD_LOAD before it, then two MOD_LOAD in a row;
\* the second one is about to return 0
C18_Witness ==
    /\ console = <<MsgUnloaded, MsgLoaded, MsgLoaded>>
    /\ running = SetToBag({Call("hello_world_load", MOD_LOAD, 0)})

====
